---------------------------- MODULE Spec2Model ----------------------------
(***************************************************************************)
(* A model of beautysh (src/src/beautysh.py): the line-oriented shell      *)
(* script formatter.  A text is a sequence of lines (what splitting on the *)
(* newline character yields) and a line is a sequence of one-character     *)
(* strings, so that every regular expression of the source is evaluated    *)
(* on characters, as the source evaluates it.                              *)
(***************************************************************************)
EXTENDS Integers, Sequences, FiniteSets, TLC

(***************************************************************************)
(* Characters and character classes (Python's \s, \w, [a-zA-Z], [0-9]).    *)
(***************************************************************************)
Lower == {"a","b","c","d","e","f","g","h","i","j","k","l","m",
          "n","o","p","q","r","s","t","u","v","w","x","y","z"}

Upper == {"A","B","C","D","E","F","G","H","I","J","K","L","M",
          "N","O","P","Q","R","S","T","U","V","W","X","Y","Z"}

Digit == {"0","1","2","3","4","5","6","7","8","9"}

IsSpace(c) == c \in {" ", "\t"}

IsAlpha(c) == c \in Lower \cup Upper

IsDigit(c) == c \in Digit

IsWord(c) == c \in Lower \cup Upper \cup Digit \cup {"_"}

BSL == "\\"

DQ == "\""

SQ == "'"

\* the backquote character (TLA+ strings cannot hold it)
BQ == "BACKQUOTE"

(***************************************************************************)
(* Sequence helpers: Python's slicing, str.find, str.replace, str.strip,   *)
(* str.join and str.split on character sequences.                          *)
(***************************************************************************)
MinOf(S) == CHOOSE p \in S : \A q \in S : p <= q

MaxOf(S) == CHOOSE p \in S : \A q \in S : q <= p

Take(s, n) == SubSeq(s, 1, n)

Drop(s, n) == SubSeq(s, n + 1, Len(s))

\* lit occurs in s at position p (1-based)
HasAt(s, p, lit) ==
    /\ p >= 1
    /\ p + Len(lit) - 1 <= Len(s)
    /\ \A k \in 1..Len(lit) : s[p + k - 1] = lit[k]

\* the first position >= from where lit occurs in s, 0 when there is none
Find(s, lit, from) ==
    LET hits == {p \in from..Len(s) : HasAt(s, p, lit)}
    IN  IF hits = {} THEN 0 ELSE MinOf(hits)

\* the last position where lit occurs in s, 0 when there is none
FindLast(s, lit) ==
    LET hits == {p \in 1..Len(s) : HasAt(s, p, lit)}
    IN  IF hits = {} THEN 0 ELSE MaxOf(hits)

Contains(s, lit) == \E p \in 1..Len(s) : HasAt(s, p, lit)

CountOf(s, chars) == Cardinality({p \in 1..Len(s) : s[p] \in chars})

RECURSIVE Replace(_, _, _)
\* str.replace(old, new): every non-overlapping occurrence, left to right
Replace(s, old, new) ==
    LET p == Find(s, old, 1)
    IN  IF p = 0 THEN s
        ELSE Take(s, p - 1) \o new \o Replace(Drop(s, p + Len(old) - 1), old, new)

rstrip(s) ==
    LET keep == {k \in 1..Len(s) : ~IsSpace(s[k])}
    IN  IF keep = {} THEN <<>> ELSE Take(s, MaxOf(keep))

lstrip(s) ==
    LET keep == {k \in 1..Len(s) : ~IsSpace(s[k])}
    IN  IF keep = {} THEN <<>> ELSE Drop(s, MinOf(keep) - 1)

strip(s) == lstrip(rstrip(s))

RECURSIVE Repeat(_, _)
\* Python's  unit * n  (empty for n <= 0)
Repeat(unit, n) == IF n <= 0 THEN <<>> ELSE unit \o Repeat(unit, n - 1)

(***************************************************************************)
(* get_test_record: the structure-only view of a stripped line.            *)
(***************************************************************************)
RECURSIVE SubLazySpan(_, _, _)
\* re.sub(open + ".*?" + close, "", s): every leftmost, shortest span from
\* an open that has a close after it, through that close
SubLazySpan(s, open, close) ==
    LET starts == {p \in 1..Len(s) :
                     HasAt(s, p, open) /\ Find(s, close, p + Len(open)) # 0}
    IN  IF starts = {} THEN s
        ELSE LET p == MinOf(starts)
                 q == Find(s, close, p + Len(open))
             IN  Take(s, p - 1)
                   \o SubLazySpan(Drop(s, q + Len(close) - 1), open, close)

RECURSIVE SubEscapedChar(_)
\* re.sub(r"\\.", "", s): a backslash and the character after it
SubEscapedChar(s) ==
    LET starts == {p \in 1..(Len(s) - 1) : s[p] = BSL}
    IN  IF starts = {} THEN s
        ELSE LET p == MinOf(starts)
             IN  Take(s, p - 1) \o SubEscapedChar(Drop(s, p + 1))

\* re.sub(r"(\A|\s)(#.*)", "", s, 1): the first '#' that starts the line or
\* follows whitespace goes, with that whitespace character and the rest
SubComment(s) ==
    LET marks == {p \in 1..Len(s) :
                    s[p] = "#" /\ (p = 1 \/ IsSpace(s[p - 1]))}
    IN  IF marks = {} THEN s
        ELSE LET p == MinOf(marks)
             IN  IF p = 1 THEN <<>> ELSE Take(s, p - 2)

get_test_record(source_line) ==
    LET r1 == Replace(source_line, <<BSL, SQ>>, <<>>)
        r2 == Replace(r1, <<BSL, DQ>>, <<>>)
        r3 == SubLazySpan(r2, <<SQ>>, <<SQ>>)
        r4 == SubLazySpan(r3, <<DQ>>, <<DQ>>)
        r5 == SubLazySpan(r4, <<BQ>>, <<BQ>>)
        r6 == SubLazySpan(r5, <<BSL, BQ>>, <<SQ>>)
        r7 == SubEscapedChar(r6)
    IN  SubComment(r7)

(***************************************************************************)
(* Function declaration styles: FUNCTION_STYLE_REGEX, in detection order,  *)
(* and FUNCTION_STYLE_REPLACEMENT.  A match is [end, name]: end is the     *)
(* position after the match, 0 when the regex does not match at p.         *)
(***************************************************************************)
None == -1

L_function == <<"f","u","n","c","t","i","o","n">>

NoMatch == [end |-> 0, name |-> <<>>]

\* the first position >= p whose character is no whitespace (\s* from p)
SpanSpace(s, p) ==
    LET stops == {q \in p..Len(s) : ~IsSpace(s[q])}
    IN  IF stops = {} THEN Len(s) + 1 ELSE MinOf(stops)

\* the first position >= p whose character is no word character (\w* from p)
SpanWord(s, p) ==
    LET stops == {q \in p..Len(s) : ~IsWord(s[q])}
    IN  IF stops = {} THEN Len(s) + 1 ELSE MinOf(stops)

\* \b before position p
WordBoundary(s, p) ==
    (p > 1 /\ p - 1 <= Len(s) /\ IsWord(s[p - 1])) # (p >= 1 /\ p <= Len(s) /\ IsWord(s[p]))

\* \s*\(\s*\)\s* from p: the position after it, 0 when it does not match
MatchParens(s, p) ==
    LET e == SpanSpace(s, p)
        f == SpanSpace(s, e + 1)
    IN  IF e <= Len(s) /\ s[e] = "(" /\ f <= Len(s) /\ s[f] = ")"
        THEN SpanSpace(s, f + 1)
        ELSE 0

\* \bfunction\s+(\w*) at p: [end, name] up to the name
MatchKeyword(s, p) ==
    LET a == p + Len(L_function)
        b == SpanSpace(s, a)
        c == SpanWord(s, b)
    IN  IF WordBoundary(s, p) /\ HasAt(s, p, L_function) /\ b > a
        THEN [end |-> c, name |-> SubSeq(s, b, c - 1)]
        ELSE NoMatch

\* FUNCTION_STYLE_REGEX[style] matched at position p
MatchStyleAt(style, s, p) ==
    CASE style = 0 ->
           LET k == MatchKeyword(s, p)
               g == IF k.end = 0 THEN 0 ELSE MatchParens(s, k.end)
           IN  IF g = 0 THEN NoMatch ELSE [end |-> g, name |-> k.name]
      [] style = 1 ->
           LET k == MatchKeyword(s, p)
           IN  IF k.end = 0 THEN NoMatch
               ELSE [end |-> SpanSpace(s, k.end), name |-> k.name]
      [] OTHER ->
           LET a == SpanSpace(s, p)
               c == SpanWord(s, a)
               g == MatchParens(s, c)
           IN  IF WordBoundary(s, p) /\ g # 0
               THEN [end |-> g, name |-> SubSeq(s, a, c - 1)]
               ELSE NoMatch

\* re.search(FUNCTION_STYLE_REGEX[style], s) from position from: the start of
\* the leftmost match, 0 when there is none
SearchStyle(style, s, from) ==
    LET starts == {p \in from..(Len(s) + 1) : MatchStyleAt(style, s, p).end # 0}
    IN  IF starts = {} THEN 0 ELSE MinOf(starts)

\* the replacement table with its first two entries exchanged
StyleReplacementExchanged(style, name) ==
    CASE style = 1 -> L_function \o <<" ">> \o name \o <<"(", ")", " ">>
      [] style = 0 -> L_function \o <<" ">> \o name \o <<" ">>
      [] OTHER     -> name \o <<"(", ")", " ">>

\* FUNCTION_STYLE_REPLACEMENT[style] with \g<1> = name
StyleReplacement(style, name) ==
    CASE style = 0 -> L_function \o <<" ">> \o name \o <<"(", ")", " ">>
      [] style = 1 -> L_function \o <<" ">> \o name \o <<" ">>
      [] OTHER     -> name \o <<"(", ")", " ">>

RECURSIVE SubStyle(_, _, _, _)
\* re.sub(FUNCTION_STYLE_REGEX[from_style], FUNCTION_STYLE_REPLACEMENT[to_style], s),
\* scanning from position from
SubStyle(from_style, to_style, s, from) ==
    LET p == SearchStyle(from_style, s, from)
    IN  IF p = 0 THEN Drop(s, from - 1)
        ELSE LET m == MatchStyleAt(from_style, s, p)
             IN  SubSeq(s, from, p - 1) \o StyleReplacement(to_style, m.name)
                   \o SubStyle(from_style, to_style, s, m.end)

\* the regexes are tried in the order 0, 1, 2 and the first that matches wins
detect_function_style(test_record) ==
    IF SearchStyle(0, test_record, 1) # 0 THEN 0
    ELSE IF SearchStyle(1, test_record, 1) # 0 THEN 1
    ELSE IF SearchStyle(2, test_record, 1) # 0 THEN 2
    ELSE None

change_function_style(apply_function_style, stripped_record, func_decl_style) ==
    IF func_decl_style = None THEN stripped_record
    ELSE IF apply_function_style = None THEN stripped_record
    ELSE strip(SubStyle(func_decl_style, apply_function_style, stripped_record, 1))

(***************************************************************************)
(* The regular expressions of beautify_string, each as the predicate or    *)
(* rewrite it computes on a character sequence.                            *)
(***************************************************************************)
L_case == <<"c","a","s","e">>

L_then == <<"t","h","e","n">>

L_do == <<"d","o">>

L_esac == <<"e","s","a","c">>

L_fi == <<"f","i">>

L_done == <<"d","o","n","e">>

L_elif == <<"e","l","i","f">>

L_else == <<"e","l","s","e">>

L_formatter_on == <<"@","f","o","r","m","a","t","t","e","r",":","o","n">>

L_formatter_off == <<"@","f","o","r","m","a","t","t","e","r",":","o","f","f">>

\* re.search(r'.*&{1,2}|.*\|{1,2}$', record): an '&' anywhere, or a final '|'
ContinuedIf(record) ==
    \/ Contains(record, <<"&">>)
    \/ (Len(record) > 0 /\ record[Len(record)] = "|")

RECURSIVE SpaceBeforeTerminator(_)
\* re.sub(r"(\S);;", r"\1 ;;", s)
SpaceBeforeTerminator(s) ==
    LET starts == {p \in 1..(Len(s) - 2) :
                     ~IsSpace(s[p]) /\ s[p + 1] = ";" /\ s[p + 2] = ";"}
    IN  IF starts = {} THEN s
        ELSE LET p == MinOf(starts)
             IN  Take(s, p) \o <<" ", ";", ";">> \o SpaceBeforeTerminator(Drop(s, p + 2))

\* re.search(r"\\$", s)
EndsWithBackslash(s) == Len(s) > 0 /\ s[Len(s)] = BSL

\* re.subn(r'^[^"]*"', "", s): the line through its first double quote
SubClosingQuote(s) ==
    LET p == Find(s, <<DQ>>, 1)
    IN  IF p = 0 THEN [rec |-> s, num_subs |-> 0]
        ELSE [rec |-> Drop(s, p), num_subs |-> 1]

\* re.subn(r'"[^"]*?\\$', "", s): from the last double quote, when the line
\* ends in a backslash after it
SubOpeningQuote(s) ==
    LET q == FindLast(s, <<DQ>>)
    IN  IF q # 0 /\ q < Len(s) /\ s[Len(s)] = BSL
        THEN [rec |-> Take(s, q - 1), num_subs |-> 1]
        ELSE [rec |-> s, num_subs |-> 0]

\* re.search(r"<<-?", s) and not re.search(r".*<<<", s)
HereDocStart(s) == Contains(s, <<"<", "<">>) /\ ~Contains(s, <<"<", "<", "<">>)

IsTokenChar(c) == IsWord(c) \/ c = "|"

\* [_|\w]+ from p: the position after the longest run
SpanToken(s, p) ==
    LET stops == {q \in p..Len(s) : ~IsTokenChar(s[q])}
    IN  IF stops = {} THEN Len(s) + 1 ELSE MinOf(stops)

\* <<-?\s*['|"]?([_|\w]+) matched at p: the group, <<>> when it does not match
HereTokenAt(s, p) ==
    LET a == p + 2
        b == IF a <= Len(s) /\ s[a] = "-" THEN a + 1 ELSE a
        c == SpanSpace(s, b)
        quoted == c <= Len(s) /\ s[c] \in {SQ, "|", DQ}
        e1 == SpanToken(s, c + 1)
        e2 == SpanToken(s, c)
    IN  IF ~HasAt(s, p, <<"<", "<">>) THEN <<>>
        ELSE IF quoted /\ e1 > c + 1 THEN SubSeq(s, c + 1, e1 - 1)
        ELSE SubSeq(s, c, e2 - 1)

\* re.sub(r'.*<<-?\s*[\'|"]?([_|\w]+)[\'|"]?.*', r"\1", s, 1): the token after
\* the last '<<' that has one; the line itself when the regex does not match
HereString(stripped_record) ==
    LET starts == {p \in 1..Len(stripped_record) : HereTokenAt(stripped_record, p) # <<>>}
    IN  IF starts = {} THEN stripped_record
        ELSE HereTokenAt(stripped_record, MaxOf(starts))

RECURSIVE Alternatives(_)
\* the alternatives of a regex made of literal characters and '|'
Alternatives(pattern) ==
    LET p == Find(pattern, <<"|">>, 1)
    IN  IF p = 0 THEN {pattern}
        ELSE {Take(pattern, p - 1)} \cup Alternatives(Drop(pattern, p))

\* re.search(pattern, s) for a pattern of literal characters and '|'
\* (here_string is used as a regex: its '|' is alternation)
SearchPattern(pattern, s) ==
    \E alt \in Alternatives(pattern) : alt = <<>> \/ Contains(s, alt)

\* re.search(r'(\A|\s)(\'|")', s)
ExtQuoteStart(s) ==
    \E p \in 1..Len(s) : s[p] \in {SQ, DQ} /\ (p = 1 \/ IsSpace(s[p - 1]))

\* re.sub(r'.*([\'"]).*', r"\1", s, 1): the last quote character of s
LastQuoteChar(s) ==
    LET quotes == {p \in 1..Len(s) : s[p] \in {SQ, DQ}}
    IN  IF quotes = {} THEN s ELSE <<s[MaxOf(quotes)]>>

\* re.sub(r"(.*)%s.*" % q, r"\1", s, 1): s before the last q
BeforeLast(s, q) ==
    LET p == FindLast(s, q)
    IN  IF p = 0 THEN s ELSE Take(s, p - 1)

\* re.sub(r".*%s(.*)" % q, r"\1", s, 1): s after the last q
AfterLast(s, q) ==
    LET p == FindLast(s, q)
    IN  IF p = 0 THEN s ELSE Drop(s, p + Len(q) - 1)

\* re.search(r"#\s*" + marker, s)
HasFormatterMarker(s, marker) ==
    \E p \in 1..Len(s) : s[p] = "#" /\ HasAt(s, SpanSpace(s, p + 1), marker)

\* (\s|\A|;)(kw1|kw2|...)(;|\Z|\s and the other closers) matched at p: the
\* position after the match, 0 when it does not match
MatchKeywordAt(s, p, keywords, closers) ==
    LET lead == p <= Len(s) /\ (IsSpace(s[p]) \/ s[p] = ";")
        k == IF lead THEN p + 1 ELSE p
        ends == {k + Len(kw) : kw \in {w \in keywords : HasAt(s, k, w)}}
        good == {e \in ends : e > Len(s) \/ IsSpace(s[e]) \/ s[e] \in closers}
    IN  IF (lead \/ p = 1) /\ good # {}
        THEN LET e == MinOf(good) IN IF e > Len(s) THEN e ELSE e + 1
        ELSE 0

RECURSIVE CountKeywords(_, _, _, _)
\* len(re.findall(...)): the non-overlapping matches from position from on
CountKeywords(s, from, keywords, closers) ==
    LET starts == {p \in from..Len(s) : MatchKeywordAt(s, p, keywords, closers) # 0}
    IN  IF starts = {} THEN 0
        ELSE 1 + CountKeywords(s, MatchKeywordAt(s, MinOf(starts), keywords, closers),
                               keywords, closers)

\* re.search(r"\bword\b", s)
HasWord(s, word) ==
    \E p \in 1..Len(s) :
        HasAt(s, p, word) /\ WordBoundary(s, p) /\ WordBoundary(s, p + Len(word))

\* re.search(r"\A[^(]*\)", s): a ')' with no '(' before it
ChoiceArm(s) ==
    LET c == Find(s, <<")">>, 1)
        o == Find(s, <<"(">>, 1)
    IN  c # 0 /\ (o = 0 \/ o > c)

\* re.search(r"^(else|elif\s.*?;\s+?then)", s)
ElseOrElifThen(s) ==
    \/ HasAt(s, 1, L_else)
    \/ /\ HasAt(s, 1, L_elif)
       /\ Len(s) >= 5 /\ IsSpace(s[5])
       /\ \E p \in 6..(Len(s) - 1) :
              s[p] = ";" /\ IsSpace(s[p + 1]) /\ HasAt(s, SpanSpace(s, p + 1), L_then)

\* inc of one analysed line, before the case adjustments
Inc(test_record) ==
    CountKeywords(test_record, 1, {L_case, L_then, L_do}, {";"})
      + CountOf(test_record, {"{", "(", "["})

\* outc of one analysed line, before the esac adjustment
Outc(test_record) ==
    CountKeywords(test_record, 1, {L_esac, L_fi, L_done, L_elif}, {";", ")", "|"})
      + CountOf(test_record, {"}", ")", "]"})

\* the change of open_brackets over one line
BracketDelta(test_record) == CountOf(test_record, {"["}) - CountOf(test_record, {"]"})

(***************************************************************************)
(* beautify_string: the locals it carries from line to line, and the body  *)
(* of its loop as a function of those locals and one input line.           *)
(***************************************************************************)
RegexMeta == {".", "^", "$", "*", "+", "?", "{", "}", "[", "]", BSL, "(", ")"}

\* re.search(pattern, ...) raises re.error: an unbalanced parenthesis
PatternRaises(pattern) == CountOf(pattern, {"("}) # CountOf(pattern, {")"})

\* the patterns SearchPattern and PatternRaises are exact for
PatternInScope(pattern) ==
    \/ PatternRaises(pattern) /\ CountOf(pattern, RegexMeta \ {"(", ")"}) = 0
    \/ CountOf(pattern, RegexMeta) = 0

\* the locals as beautify_string initialises them (source lines 108-122);
\* took names the branch the last line went through, raised the exception
\* that ended the call
InitLocals ==
    [tab |-> 0, case_level |-> 0,
     prev_line_had_continue |-> FALSE, continue_line |-> FALSE,
     started_multiline_quoted_string |-> FALSE,
     ended_multiline_quoted_string |-> FALSE,
     open_brackets |-> 0, in_here_doc |-> FALSE,
     defer_ext_quote |-> FALSE, in_ext_quote |-> FALSE,
     ext_quote_string |-> <<>>, here_string |-> <<>>,
     output |-> <<>>, formatter |-> TRUE,
     stderr |-> <<>>, took |-> "start", raised |-> "no"]

\* the end of one pass through the loop body (source lines 275-282)
EndOfRecord(st, test_record) ==
    [st EXCEPT !.in_ext_quote = IF st.defer_ext_quote THEN TRUE ELSE @,
               !.defer_ext_quote = FALSE,
               !.open_brackets = @ + BracketDelta(test_record)]

\* the indentation of one structurally analysed line (source lines 217-273)
Analyse(st, cfg, stripped_record, test_record) ==
    LET inc0 == Inc(test_record)
        outc0 == Outc(test_record)
        has_esac == HasWord(test_record, L_esac)
        orphan == has_esac /\ st.case_level = 0
        outc == IF has_esac /\ ~orphan THEN outc0 + 1 ELSE outc0
        level1 == IF has_esac /\ ~orphan THEN st.case_level - 1 ELSE st.case_level
        has_case == HasWord(test_record, L_case)
        inc1 == IF has_case THEN inc0 + 1 ELSE inc0
        level2 == IF has_case THEN level1 + 1 ELSE level1
        arm == level2 # 0 /\ ChoiceArm(test_record)
        inc == IF arm THEN inc1 + 1 ELSE inc1
        choice_case == IF arm THEN -1 ELSE 0
        func_decl_style == detect_function_style(test_record)
        emitted == IF func_decl_style # None
                   THEN change_function_style(cfg.apply_function_style,
                                              stripped_record, func_decl_style)
                   ELSE stripped_record
        else_case == IF ElseOrElifThen(test_record) THEN -1 ELSE 0
        net == inc - outc
        tab1 == st.tab + (IF net < 0 THEN net ELSE 0)
        extab0 == tab1 + else_case + choice_case
        extab1 == IF st.prev_line_had_continue /\ st.open_brackets = 0
                     /\ ~st.ended_multiline_quoted_string
                  THEN extab0 + 1 ELSE extab0
        extab == IF extab1 > 0 THEN extab1 ELSE 0
    IN  [st EXCEPT !.case_level = level2,
                   !.stderr = IF orphan THEN Append(@, "esac before case") ELSE @,
                   !.output = Append(@, Repeat(<<cfg.tab_str>>, cfg.tab_size * extab)
                                          \o emitted),
                   !.tab = tab1 + (IF net > 0 THEN net ELSE 0),
                   !.took = "analysed"]

\* a line outside here-documents and multi-line strings (source lines 167-281)
StructuralRecord(st, cfg, record, stripped_record, test_record0, continued_if) ==
    LET opening == st.continue_line /\ ~st.prev_line_had_continue
        sub == SubOpeningQuote(test_record0)
        test_record1 == IF opening THEN sub.rec ELSE test_record0
        started == opening /\ sub.num_subs > 0
        here == HereDocStart(test_record1)
        here_string == IF here THEN HereString(stripped_record) ELSE st.here_string
        in_here_doc == IF here THEN Len(here_string) > 0 ELSE st.in_here_doc
        closes == st.in_ext_quote /\ Contains(test_record1, st.ext_quote_string)
        opens == ~st.in_ext_quote /\ ExtQuoteStart(test_record1)
        ext_quote_string == IF opens THEN LastQuoteChar(test_record1)
                            ELSE st.ext_quote_string
        test_record == IF closes THEN AfterLast(test_record1, st.ext_quote_string)
                       ELSE IF opens THEN BeforeLast(test_record1, ext_quote_string)
                       ELSE test_record1
        st1 == [st EXCEPT !.started_multiline_quoted_string = started,
                          !.here_string = here_string,
                          !.in_here_doc = in_here_doc,
                          !.in_ext_quote = IF closes THEN FALSE ELSE @,
                          !.defer_ext_quote = IF opens THEN TRUE ELSE @,
                          !.ext_quote_string = ext_quote_string]
        kept == [st1 EXCEPT !.output = Append(@, record)]
    IN  IF st1.in_ext_quote \/ ~st1.formatter
        THEN IF HasFormatterMarker(stripped_record, L_formatter_on)
             THEN [kept EXCEPT !.formatter = TRUE, !.took = "formatter_on"]
             ELSE EndOfRecord([kept EXCEPT !.took = "quoted_or_off"], test_record)
        ELSE IF HasFormatterMarker(stripped_record, L_formatter_off)
             THEN [kept EXCEPT !.formatter = FALSE, !.took = "formatter_off"]
             ELSE IF st1.open_brackets # 0 \/ continued_if
                  THEN EndOfRecord([kept EXCEPT !.took = "kept"], test_record)
                  ELSE EndOfRecord(Analyse(st1, cfg, stripped_record, test_record),
                                   test_record)

\* the loop body for one element of re.split("\n", data) (source lines 124-282)
ProcessRecord(st, cfg, line) ==
    LET record == rstrip(line)
        stripped0 == strip(record)
        continued_if == ContinuedIf(record)
        stripped_record == IF st.case_level # 0 THEN SpaceBeforeTerminator(stripped0)
                           ELSE stripped0
        test_record0 == get_test_record(stripped_record)
        prev == st.continue_line
        cont == EndsWithBackslash(stripped_record)
        inside == prev /\ cont /\ st.started_multiline_quoted_string
        closing == ~cont /\ prev /\ st.started_multiline_quoted_string
        sub == SubClosingQuote(test_record0)
        test_record == IF closing THEN sub.rec ELSE test_record0
        ended == closing /\ sub.num_subs > 0
        st1 == [st EXCEPT !.prev_line_had_continue = prev,
                          !.continue_line = cont,
                          !.ended_multiline_quoted_string = ended]
    IN  IF stripped0 = <<>>
        THEN [st EXCEPT !.output = Append(@, <<>>), !.took = "blank"]
        ELSE IF st.in_here_doc \/ inside \/ ended
        THEN IF PatternRaises(st.here_string)
             THEN [st1 EXCEPT !.output = Append(@, record), !.took = "raised",
                              !.raised = "re.error"]
             ELSE [st1 EXCEPT
                     !.output = Append(@, record),
                     !.in_here_doc =
                         IF SearchPattern(st.here_string, test_record)
                              /\ ~Contains(test_record, <<"<", "<">>)
                         THEN FALSE ELSE @,
                     !.took = "verbatim"]
        ELSE StructuralRecord(st1, cfg, record, stripped_record, test_record,
                              continued_if)

RECURSIVE RunRecords(_, _, _, _)
\* the loop over the lines from index i on; it stops where a line raises
RunRecords(st, cfg, data, i) ==
    IF i > Len(data) \/ st.raised # "no" THEN st
    ELSE RunRecords(ProcessRecord(st, cfg, data[i]), cfg, data, i + 1)

\* what beautify_string returns (source lines 283-286): the text, as lines,
\* and the error flag
Returned(st) ==
    [text |-> st.output, error |-> st.tab # 0, raised |-> st.raised]

(***************************************************************************)
(* The state machine.  One behaviour is one call of an operation of the    *)
(* Beautify class on an input text; pc is the operation's position, loc    *)
(* its local variables, ret what it returned.                              *)
(***************************************************************************)
VARIABLES
    pc,       \* the running operation, or "returned" / "raised"
    config,   \* tab_str, tab_size, apply_function_style of the Beautify object
    data,     \* the text the operation was called with, as its lines
    idx,      \* the loop index of the running operation
    loc,      \* the locals of the running operation
    ret,      \* the value the operation returned
    run,      \* 1 on the first call, 2 when called again on its own output
    first,    \* what the first call returned, once called again
    errors    \* errors[path]: the diagnostics recorded for the file

vars == <<pc, config, data, idx, loc, ret, run, first, errors>>

TabSize == 4

MaxLines == 3

Styles == {None, 0, 1, 2}

Configs == {[tab_str |-> " ", tab_size |-> TabSize, apply_function_style |-> s] : s \in Styles}

\* the texts of 1..n lines over the lines of bank
Texts(bank, n) == UNION {[1..k -> bank] : k \in 1..n}

NoReturn == [text |-> <<>>, error |-> FALSE, raised |-> "no"]

(***************************************************************************)
(* The input lines of the indentation pass.                                *)
(***************************************************************************)
\* if a && b; then
Line_if_and == <<"i","f"," ","a"," ","&","&"," ","b",";"," ","t","h","e","n">>

\* if a; then
Line_if == <<"i","f"," ","a",";"," ","t","h","e","n">>

Line_fi == <<"f","i">>

\* [ a
Line_open_test == <<"["," ","a">>

\* b ]
Line_close_test == <<"b"," ","]">>

Line_open_brace == <<"{">>

Line_close_brace == <<"}">>

Line_esac == <<"e","s","a","c">>

\* elsex() { :; }
Line_elsex == <<"e","l","s","e","x","(",")"," ","{"," ",":",";"," ","}">>

\*   x      (indented)
Line_indented == <<" "," ","x">>

NestingBank ==
    {Line_if_and, Line_if, Line_fi, Line_open_test, Line_close_test,
     Line_open_brace, Line_close_brace, Line_esac, Line_elsex, Line_indented}

BeautifyInit(bank) ==
    /\ pc = "beautify_string"
    /\ config \in Configs
    /\ data \in Texts(bank, MaxLines)
    /\ idx = 1
    /\ loc = InitLocals
    /\ ret = NoReturn
    /\ run = 1
    /\ first = NoReturn
    /\ errors = <<>>

\* one pass through the loop of beautify_string
Record ==
    /\ pc = "beautify_string"
    /\ idx <= Len(data)
    /\ loc' = ProcessRecord(loc, config, data[idx])
    /\ idx' = idx + 1
    /\ pc' = IF loc'.raised # "no" THEN "raised" ELSE pc
    /\ ret' = IF loc'.raised # "no" THEN Returned(loc') ELSE ret
    /\ UNCHANGED <<config, data, run, first, errors>>

\* the end of beautify_string: the error flag and the joined output
Return ==
    /\ pc = "beautify_string"
    /\ idx > Len(data)
    /\ ret' = Returned(loc)
    /\ loc' = [loc EXCEPT !.stderr = IF loc.tab # 0
                                     THEN Append(@, "indent/outdent mismatch")
                                     ELSE @]
    /\ pc' = "returned"
    /\ UNCHANGED <<config, data, idx, run, first, errors>>

\* beautify_string called on the text it returned, same configuration
Again ==
    /\ pc = "returned"
    /\ run = 1
    /\ first' = ret
    /\ data' = ret.text
    /\ loc' = InitLocals
    /\ idx' = 1
    /\ run' = 2
    /\ pc' = "beautify_string"
    /\ UNCHANGED <<config, ret, errors>>

Init == BeautifyInit(NestingBank)

Next == Record \/ Return \/ Again

Spec == Init /\ [][Next]_vars

(***************************************************************************)
(* Claims about the indentation pass on nested constructs.                 *)
(***************************************************************************)
L_if == <<"i","f">>

\* the occurrences of word as a whole word in the structure-only view of line
WordCount(line, word) ==
    LET t == get_test_record(strip(line))
    IN  Cardinality({p \in 1..Len(t) :
                       HasAt(t, p, word) /\ WordBoundary(t, p)
                         /\ WordBoundary(t, p + Len(word))})

CharCount(line, c) == CountOf(get_test_record(strip(line)), {c})

RECURSIVE SumOver(_, _, _)
\* the sum of Op(text[k]) for k in 1..n
SumOver(Op(_), text, n) == IF n = 0 THEN 0 ELSE SumOver(Op, text, n - 1) + Op(text[n])

\* opener and closer occur equally often in text, and in no prefix of its
\* lines the closer more often than the opener
Paired(Open(_), Close(_), text) ==
    /\ SumOver(Open, text, Len(text)) = SumOver(Close, text, Len(text))
    /\ \A n \in 1..Len(text) : SumOver(Close, text, n) <= SumOver(Open, text, n)

\* every if/fi, case/esac, do/done, {}, () and [] of text is balanced
Balanced(text) ==
    /\ Paired(LAMBDA l : WordCount(l, L_if), LAMBDA l : WordCount(l, L_fi), text)
    /\ Paired(LAMBDA l : WordCount(l, L_then), LAMBDA l : WordCount(l, L_fi), text)
    /\ Paired(LAMBDA l : WordCount(l, L_case), LAMBDA l : WordCount(l, L_esac), text)
    /\ Paired(LAMBDA l : WordCount(l, L_do), LAMBDA l : WordCount(l, L_done), text)
    /\ Paired(LAMBDA l : CharCount(l, "{"), LAMBDA l : CharCount(l, "}"), text)
    /\ Paired(LAMBDA l : CharCount(l, "("), LAMBDA l : CharCount(l, ")"), text)
    /\ Paired(LAMBDA l : CharCount(l, "["), LAMBDA l : CharCount(l, "]"), text)

\* C1: for every input text whose if/then/fi, case/esac, do/done and bracket
\* pairs are all balanced, beautify_string ends with running depth 0 and
\* returns error = False, whichever lines were analysed or kept unchanged.
C1_BalancedEndsAtDepthZero ==
    (pc = "returned" /\ run = 1 /\ Balanced(data))
        => (loc.tab = 0 /\ ~ret.error)

\* C2: beautify_string applied to its own output, same configuration,
\* returns identical text, and no error when the first run had none.
C2_Idempotent ==
    (pc = "returned" /\ run = 2)
        => (ret.text = first.text /\ (~first.error => ~ret.error))

\* C7: whenever an analysed line held esac while the case level was 0, the
\* error flag returned for the file is True.
C7_OrphanEsacSetsError ==
    (pc = "returned" /\ \E k \in 1..Len(loc.stderr) : loc.stderr[k] = "esac before case")
        => ret.error

(***************************************************************************)
(* Here-documents and multi-line quoted strings: their input lines, the    *)
(* specifications that draw from them, and the claims.                     *)
(***************************************************************************)
\* cat <<E
Line_heredoc == <<"c","a","t"," ","<","<","E">>

\*   x     (indented, with trailing whitespace)
Line_trailing == <<" "," ","x"," "," ">>

\* a whitespace-only line
Line_spaces == <<" "," "," ">>

\* aEa     (holds the terminator inside longer text)
Line_token_inside == <<"a","E","a">>

Line_token == <<"E">>

HereDocBank ==
    {Line_heredoc, Line_trailing, Line_spaces, Line_token_inside, Line_token,
     Line_indented}

\* a "b \     (opens a double-quoted string and continues)
Line_quote_opens == <<"a"," ",DQ,"b"," ",BSL>>

\*   c \      (a continuation line inside the string)
Line_quote_continues == <<" "," ","c"," ",BSL>>

\*   d"       (closes the string)
Line_quote_closes == <<" "," ","d",DQ>>

Line_x == <<"x">>

QuotedBank ==
    {Line_quote_opens, Line_quote_continues, Line_indented, Line_quote_closes, Line_x}

SpecHereDoc == BeautifyInit(HereDocBank) /\ [][Next]_vars

SpecQuoted == BeautifyInit(QuotedBank) /\ [][Next]_vars

\* the locals before and after line i of data on the first run
LocalsBefore(i) == RunRecords(InitLocals, config, SubSeq(data, 1, i - 1), 1)

LocalsAfter(i) == ProcessRecord(LocalsBefore(i), config, data[i])

\* line i is structurally analysed and opens a here-document
OpensHereDoc(i) ==
    /\ ~LocalsBefore(i).in_here_doc
    /\ LocalsAfter(i).in_here_doc
    /\ LocalsAfter(i).took = "analysed"

\* C3: once an analysed line opens a here-document with terminator TOKEN,
\* every following input line before the first line equal to TOKEN is
\* emitted character for character as in the input.
C3_HereDocBodyVerbatim ==
    (pc = "returned" /\ run = 1)
        => \A i \in 1..Len(data) :
             OpensHereDoc(i)
               => \A j \in (i + 1)..Len(data) :
                    (\A k \in (i + 1)..j : data[k] # LocalsAfter(i).here_string)
                      => ret.text[j] = data[j]

\* line i opens a double-quoted string that it leaves unclosed, and ends in
\* a continuation backslash, the line before it not being a continuation
OpensQuotedString(i) ==
    /\ LocalsAfter(i).started_multiline_quoted_string
    /\ LocalsAfter(i).took # "verbatim"

\* C4: once such a string is opened, every following line up to and
\* including the line that closes it is emitted unchanged.
C4_QuotedStringVerbatim ==
    (pc = "returned" /\ run = 1)
        => \A i \in 1..Len(data) :
             OpensQuotedString(i)
               => \A j \in (i + 1)..Len(data) :
                    (\A k \in (i + 1)..(j - 1) : ~Contains(data[k], <<DQ>>))
                      => ret.text[j] = data[j]

(***************************************************************************)
(* Function-style conversion: a declaration line is rewritten to the       *)
(* keyword-only style and the result to the parens-only style, each time   *)
(* as beautify_string does it for an analysed line (source lines 247-252). *)
(***************************************************************************)
MaxNameLen == 3

NameChars == {"a", "_", "7"}

\* the function names: every word of 1..MaxNameLen characters, and two that
\* are shell keywords
Names ==
    UNION {[1..k -> NameChars] : k \in 1..MaxNameLen} \cup {L_else, L_do}

\* n() {   n(){   n () {
Declarations(n) ==
    {n \o <<"(", ")", " ", "{">>, n \o <<"(", ")", "{">>,
     n \o <<" ", "(", ")", " ", "{">>}

\* the declaration lines: those of every name, and function() { for the word
\* function as a name (function () { is, to the regexes, a keyword
\* declaration of the empty name)
DeclarationLines ==
    UNION {Declarations(n) : n \in Names} \cup {L_function \o <<"(", ")", " ", "{">>}

StyleInit ==
    /\ pc = "declared"
    /\ config = [tab_str |-> " ", tab_size |-> TabSize, apply_function_style |-> None]
    /\ \E d \in DeclarationLines : data = <<d>>
    /\ idx = 1
    /\ loc = [line |-> data[1], detected |-> <<>>]
    /\ ret = NoReturn
    /\ run = 1
    /\ first = NoReturn
    /\ errors = <<>>

\* detect the style of the line and rewrite it to the style target
Restyle(target) ==
    LET stripped_record == strip(loc.line)
        func_decl_style == detect_function_style(get_test_record(stripped_record))
    IN  /\ config' = [config EXCEPT !.apply_function_style = target]
        /\ loc' = [line |-> IF func_decl_style # None
                            THEN change_function_style(target, stripped_record,
                                                       func_decl_style)
                            ELSE stripped_record,
                   detected |-> Append(loc.detected, func_decl_style)]
        /\ UNCHANGED <<data, idx, ret, run, first, errors>>

ToKeywordOnly == pc = "declared" /\ Restyle(1) /\ pc' = "keyword_only"

ToParensOnly == pc = "keyword_only" /\ Restyle(2) /\ pc' = "parens_only"

StyleNext == ToKeywordOnly \/ ToParensOnly

SpecStyle == StyleInit /\ [][StyleNext]_vars

\* s without its whitespace
Squeeze(s) == SelectSeq(s, LAMBDA c : ~IsSpace(c))

\* C9: a declaration n() { rewritten to keyword-only and then to parens-only
\* is the original text up to whitespace (exactly, when written n() {), and
\* detection finds parens-only (2) on the original line and keyword-only (1)
\* on the intermediate line.
C9_StyleRoundTrip ==
    /\ pc = "keyword_only" => loc.detected = <<2>>
    /\ pc = "parens_only" =>
         /\ loc.detected = <<2, 1>>
         /\ Squeeze(loc.line) = Squeeze(data[1])
         /\ (\E n \in Names \cup {L_function} : data[1] = n \o <<"(", ")", " ", "{">>)
              => loc.line = data[1]

\* the round trip of a_7(){ has been made, through function a_7 {
C9_Witness ==
    /\ pc = "parens_only"
    /\ data[1] = <<"a", "_", "7", "(", ")", "{">>
    /\ loc.line = <<"a", "_", "7", "(", ")", " ", "{">>

(***************************************************************************)
(* check_last_line: the trailing-blank-line trim (source lines 488-503).   *)
(* idx is the loop variable i, a 0-based index into lines.                 *)
(***************************************************************************)
MaxLastLines == 4

Line_a == <<"a">>

Line_one_space == <<" ">>

LastLineBank == {<<>>, Line_a, Line_one_space}

LastLineInit ==
    /\ pc = "check_last_line"
    /\ config = [tab_str |-> " ", tab_size |-> TabSize, apply_function_style |-> None]
    /\ data \in Texts(LastLineBank, MaxLastLines)
    /\ idx = Len(data) - 1
    /\ loc = [lines |-> data, changed |-> FALSE]
    /\ ret = NoReturn
    /\ run = 1
    /\ first = NoReturn
    /\ errors = <<>>

\* the test as  lines[i].strip() == ""
IsBlankLine(lines, i) == strip(lines[i + 1]) = <<>>

\* lines[i] == ""
IsEmptyLine(lines, i) == lines[i + 1] = <<>>

\* lines.pop(i)
PopAt(lines, i) == Take(lines, i) \o Drop(lines, i + 1)

\* the loop goes on: i is in range(len(lines) - 1, 0, -1) and no break
InLoop == idx >= 1 /\ IsEmptyLine(loc.lines, idx)

PopLine ==
    /\ pc = "check_last_line"
    /\ InLoop
    /\ loc' = [lines |-> PopAt(loc.lines, idx), changed |-> TRUE]
    /\ idx' = idx - 1
    /\ UNCHANGED <<pc, config, data, ret, run, first, errors>>

ReturnLines ==
    /\ pc = "check_last_line"
    /\ ~InLoop
    /\ errors' = IF loc.changed
                 THEN Append(errors, "The file contains empty last line(s)")
                 ELSE errors
    /\ ret' = [text |-> loc.lines, error |-> FALSE, raised |-> "no"]
    /\ pc' = "returned"
    /\ UNCHANGED <<config, data, idx, loc, run, first>>

LastLineNext == PopLine \/ ReturnLines

SpecLastLine == LastLineInit /\ [][LastLineNext]_vars

\* text without its trailing empty lines; the text of empty lines only is
\* the empty string, which is one empty line
Trimmed(text) ==
    Take(text, MaxOf({1} \cup {k \in 1..Len(text) : text[k] # <<>>}))

\* C10: check_last_line returns the input without its trailing empty lines,
\* the other lines unchanged and in order; the last line of the result is
\* non-empty when the input has a non-empty line; one diagnostic is recorded
\* when a line was removed and none otherwise.
C10_TrailingBlankLinesTrimmed ==
    pc = "returned" =>
        /\ ret.text = Trimmed(data)
        /\ (\E k \in 1..Len(data) : data[k] # <<>>) => ret.text[Len(ret.text)] # <<>>
        /\ Len(errors) = IF Len(ret.text) < Len(data) THEN 1 ELSE 0

\* two trailing blank lines were removed, and one diagnostic recorded
C10_Witness ==
    /\ pc = "returned"
    /\ data = <<Line_a, <<>>, <<>>>>
    /\ ret.text = <<Line_a>>
    /\ Len(errors) = 1


(***************************************************************************)
(* Python's ordering of strings (by code point, a proper prefix first) and *)
(* sorted() on a list of strings.                                          *)
(***************************************************************************)
\* the printable ASCII characters in code-point order, from the space (32)
Ascii ==
    <<" ","!",DQ,"#","$","%","&",SQ,"(",")","*","+",",","-",".","/",
      "0","1","2","3","4","5","6","7","8","9",":",";","<","=",">","?","@",
      "A","B","C","D","E","F","G","H","I","J","K","L","M",
      "N","O","P","Q","R","S","T","U","V","W","X","Y","Z",
      "[",BSL,"]","^","_",BQ,
      "a","b","c","d","e","f","g","h","i","j","k","l","m",
      "n","o","p","q","r","s","t","u","v","w","x","y","z",
      "{","|","}","~">>

\* ord(c), counted from the space; the tab (9) and the newline (10) lie
\* before it
Ord(c) ==
    IF c = "\t" THEN -2
    ELSE IF c = "\n" THEN -1
    ELSE CHOOSE k \in 1..Len(Ascii) : Ascii[k] = c

\* a < b for two strings
StrLess(a, b) ==
    \E k \in 1..Len(b) :
        /\ k <= Len(a) + 1
        /\ Take(a, k - 1) = Take(b, k - 1)
        /\ (k = Len(a) + 1 \/ Ord(a[k]) < Ord(b[k]))

RECURSIVE Sorted(_)
\* sorted(list): the smallest element first, then the rest sorted
Sorted(list) ==
    IF list = <<>> THEN <<>>
    ELSE LET k == MinOf({p \in 1..Len(list) :
                            \A q \in 1..Len(list) : ~StrLess(list[q], list[p])})
         IN  <<list[k]>> \o Sorted(Take(list, k - 1) \o Drop(list, k))

(***************************************************************************)
(* change_function_order.  The string new_data is kept as its lines: adding *)
(* text extends the last line, adding a newline starts an empty one.       *)
(***************************************************************************)
MaxFuncLines == 5

\* new_data += text   (text holds no newline)
AddText(new_data, text) == [new_data EXCEPT ![Len(new_data)] = @ \o text]

\* new_data += "\n"
AddNewline(new_data) == Append(new_data, <<>>)

\* line.replace(" {", "").replace("function ", "")
FunctionName(line) ==
    Replace(Replace(line, <<" ", "{">>, <<>>), L_function \o <<" ">>, <<>>)

\* functions[start_line] = "start;stop": a dict keeps a key where it was
\* first inserted and takes the new value
SetFunction(functions, name, start, stop) ==
    IF \E k \in 1..Len(functions) : functions[k].name = name
    THEN [k \in 1..Len(functions) |->
            IF functions[k].name = name
            THEN [name |-> name, start |-> start, stop |-> stop]
            ELSE functions[k]]
    ELSE Append(functions, [name |-> name, start |-> start, stop |-> stop])

\* functions[name]
FunctionOf(functions, name) ==
    functions[CHOOSE k \in 1..Len(functions) : functions[k].name = name]

\* the body of the scanning loop for lines[line_number] (0-based)
ScanFunctionLine(st, line, line_number) ==
    LET starts == Contains(line, L_function)
        start_line == IF starts THEN FunctionName(line) ELSE st.start_line
        start_line_number == IF starts THEN line_number ELSE st.start_line_number
        ends == start_line_number > -1 /\ line = Line_close_brace
    IN  [functions |-> IF ends
                       THEN SetFunction(st.functions, start_line,
                                        start_line_number, line_number)
                       ELSE st.functions,
         start_line |-> start_line,
         start_line_number |-> IF ends THEN -1 ELSE start_line_number]

RECURSIVE AddHead(_, _, _, _)
\* for i in range(i, stop): new_data += lines[i] + "\n"
AddHead(new_data, lines, i, stop) ==
    IF i >= stop THEN new_data
    ELSE AddHead(AddNewline(AddText(new_data, lines[i + 1])), lines, i + 1, stop)

RECURSIVE AddBlock(_, _, _, _)
\* for j in range(j, stop + 1): new_data += lines[j], and a newline unless
\* the line is the closing brace
AddBlock(new_data, lines, j, stop) ==
    IF j > stop THEN new_data
    ELSE LET added == AddText(new_data, lines[j + 1])
         IN  AddBlock(IF lines[j + 1] # Line_close_brace
                      THEN AddNewline(added) ELSE added,
                      lines, j + 1, stop)

RECURSIVE AddBlocks(_, _, _, _, _)
\* the sorted functions from the i-th on, "\n\n" after all but the last
AddBlocks(new_data, lines, functions, sorted_functions, i) ==
    IF i > Len(sorted_functions) THEN new_data
    ELSE LET f == FunctionOf(functions, sorted_functions[i])
             block == AddBlock(new_data, lines, f.start, f.stop)
         IN  AddBlocks(IF i < Len(sorted_functions)
                       THEN AddNewline(AddNewline(block)) ELSE block,
                       lines, functions, sorted_functions, i + 1)

RECURSIVE AddTail(_, _, _)
\* for i in range(i, len(lines)): new_data += lines[i]
AddTail(new_data, lines, i) ==
    IF i >= Len(lines) THEN new_data
    ELSE AddTail(AddText(new_data, lines[i + 1]), lines, i + 1)

\* new_data, for a dict of at least one function
Reassembled(lines, functions) ==
    LET head == AddHead(<<<<>>>>, lines, 0, functions[1].start)
        sorted_functions == Sorted([k \in 1..Len(functions) |-> functions[k].name])
        blocks == AddBlocks(head, lines, functions, sorted_functions, 1)
    IN  AddTail(blocks, lines, functions[Len(functions)].stop + 1)

\* pre
Line_pre == <<"p","r","e">>

\* function a {
Line_function_a == <<"f","u","n","c","t","i","o","n"," ","a"," ","{">>

\* function b {
Line_function_b == <<"f","u","n","c","t","i","o","n"," ","b"," ","{">>

\* :
Line_colon == <<":">>

FunctionBank == {Line_pre, Line_function_a, Line_function_b, Line_colon, Line_close_brace}

FunctionInit ==
    /\ pc = "change_function_order"
    /\ config = [tab_str |-> " ", tab_size |-> TabSize, apply_function_style |-> 1]
    /\ data \in Texts(FunctionBank, MaxFuncLines)
    /\ idx = 0
    /\ loc = [functions |-> <<>>, start_line |-> <<>>, start_line_number |-> -1]
    /\ ret = NoReturn
    /\ run = 1
    /\ first = NoReturn
    /\ errors = <<>>

\* regexp.search(data), for the regexp function.*
HasFunction(lines) == \E k \in 1..Len(lines) : Contains(lines[k], L_function)

\* no function in the text: the text is returned as it is
ReturnData ==
    /\ pc = "change_function_order"
    /\ ~HasFunction(data)
    /\ ret' = [text |-> data, error |-> FALSE, raised |-> "no"]
    /\ pc' = "returned"
    /\ UNCHANGED <<config, data, idx, loc, run, first, errors>>

\* one pass through the scanning loop
ScanLine ==
    /\ pc = "change_function_order"
    /\ HasFunction(data)
    /\ idx < Len(data)
    /\ loc' = ScanFunctionLine(loc, data[idx + 1], idx)
    /\ idx' = idx + 1
    /\ UNCHANGED <<pc, config, data, ret, run, first, errors>>

\* after the loop: new_data is put together and returned; list(functions)[0]
\* raises IndexError when no function was completed
Reassemble ==
    /\ pc = "change_function_order"
    /\ HasFunction(data)
    /\ idx = Len(data)
    /\ IF loc.functions = <<>>
       THEN /\ pc' = "raised"
            /\ ret' = [text |-> <<>>, error |-> FALSE, raised |-> "IndexError"]
            /\ errors' = errors
       ELSE /\ pc' = "returned"
            /\ ret' = [text |-> Reassembled(data, loc.functions),
                       error |-> FALSE, raised |-> "no"]
            /\ errors' = IF ret'.text # data
                         THEN Append(errors, "The file contains function order issue(s).")
                         ELSE errors
    /\ UNCHANGED <<config, data, idx, loc, run, first>>

FunctionNext == ReturnData \/ ScanLine \/ Reassemble

SpecFuncs == FunctionInit /\ [][FunctionNext]_vars

RECURSIVE CompletedBlocks(_, _, _)
\* the function blocks of a text from line i (1-based) on: a block runs from
\* a declaration line to the next line equal to the closing brace, start
\* being the last declaration line seen (0 when none)
CompletedBlocks(lines, i, start) ==
    IF i > Len(lines) THEN <<>>
    ELSE LET from == IF Contains(lines[i], L_function) THEN i ELSE start
         IN  IF from > 0 /\ lines[i] = Line_close_brace
             THEN <<[name |-> FunctionName(lines[from]), start |-> from, stop |-> i]>>
                  \o CompletedBlocks(lines, i + 1, 0)
             ELSE CompletedBlocks(lines, i + 1, from)

RECURSIVE InOrder(_, _, _)
\* the blocks named by names, in that order, an empty line between two
InOrder(lines, blocks, names) ==
    IF names = <<>> THEN <<>>
    ELSE LET b == blocks[CHOOSE k \in 1..Len(blocks) : blocks[k].name = names[1]]
         IN  SubSeq(lines, b.start, b.stop)
             \o (IF Len(names) > 1 THEN <<<<>>>> ELSE <<>>)
             \o InOrder(lines, blocks, Tail(names))

\* the blocks of the text have different names and no line lies between two
DistinctAdjacentBlocks(blocks) ==
    /\ \A j, k \in 1..Len(blocks) : blocks[j].name = blocks[k].name => j = k
    /\ \A k \in 1..(Len(blocks) - 1) : blocks[k + 1].start = blocks[k].stop + 1

\* C6: for a text with at least one completed function block (here: blocks
\* of different names that follow one another directly), change_function_order
\* returns the lines before the first block, the blocks in alphabetical order
\* of their names with one empty line between two, then the lines after the
\* last block's closing brace, every line on a line of its own.
C6_FunctionOrderResult ==
    LET blocks == CompletedBlocks(data, 1, 0)
    IN  (pc = "returned" /\ blocks # <<>> /\ DistinctAdjacentBlocks(blocks)) =>
            ret.text = Take(data, blocks[1].start - 1)
                       \o InOrder(data, blocks,
                                  Sorted([k \in 1..Len(blocks) |-> blocks[k].name]))
                       \o Drop(data, blocks[Len(blocks)].stop)

\* C8: change_function_order returns a text for every input text, also for
\* one that holds the word function and no line equal to the closing brace;
\* it never raises.
C8_NoUnrecoverableFault == pc # "raised"

(***************************************************************************)
(* reorder_arguments, called by change_argument_order on a segment of a    *)
(* line with the regexp  -{1,2}[a-zA-Z]+ (a space first) and the black     *)
(* list "|,&;".                                                            *)
(***************************************************************************)
MaxArgs == 5

RECURSIVE Split(_, _)
\* s.split(sep)
Split(s, sep) ==
    LET p == Find(s, sep, 1)
    IN  IF p = 0 THEN <<s>>
        ELSE <<Take(s, p - 1)>> \o Split(Drop(s, p + Len(sep) - 1), sep)

RECURSIVE Join(_, _)
\* sep.join(parts)
Join(parts, sep) ==
    IF parts = <<>> THEN <<>>
    ELSE IF Len(parts) = 1 THEN parts[1]
    ELSE parts[1] \o sep \o Join(Tail(parts), sep)

\* s[:n]
Prefix(s, n) == SubSeq(s, 1, MinOf({n, Len(s)}))

\* regexp.search(s) for  r' -{1,2}[a-zA-Z]+'
HasArgument(s) ==
    \E p \in 1..Len(s) :
        /\ s[p] = " "
        /\ p + 2 <= Len(s)
        /\ s[p + 1] = "-"
        /\ \/ IsAlpha(s[p + 2])
           \/ s[p + 2] = "-" /\ p + 3 <= Len(s) /\ IsAlpha(s[p + 3])

\* regexp.search(" %s" % split)
IsArgument(split) == HasArgument(<<" ">> \o split)

black_list == {"|", ",", "&", ";"}

\* the test with the quote cases on the other side: a split that begins
\* with a quote is no value
NoValuePairQuoted(splits, j) ==
    \/ j + 1 = Len(splits)
    \/ LET next == splits[j + 2]
       IN  \/ Prefix(next, 1) = <<DQ>>
           \/ Prefix(next, 2) = <<BSL, DQ>>
           \/ \E k \in 1..Len(next) : next[k] \in black_list
           \/ IsArgument(next)

\* the split after splits[j] (0-based) is no value for it
NoValuePair(splits, j) ==
    \/ j + 1 = Len(splits)
    \/ LET next == splits[j + 2]
       IN  /\ Prefix(next, 1) # <<DQ>>
           /\ Prefix(next, 2) # <<BSL, DQ>>
           /\ \/ \E k \in 1..Len(next) : next[k] \in black_list
              \/ IsArgument(next)

\* arguments[key] = value: a dict keeps a key where it was first inserted
SetArgument(arguments, key, value) ==
    IF \E k \in 1..Len(arguments) : arguments[k].key = key
    THEN [k \in 1..Len(arguments) |->
            IF arguments[k].key = key THEN [key |-> key, value |-> value]
            ELSE arguments[k]]
    ELSE Append(arguments, [key |-> key, value |-> value])

\* key in arguments
InArguments(arguments, key) == \E k \in 1..Len(arguments) : arguments[k].key = key

\* arguments[key]
ArgumentValue(arguments, key) ==
    arguments[CHOOSE k \in 1..Len(arguments) : arguments[k].key = key].value

RECURSIVE StripHyphens(_)
\* re.sub(r'^-*', '', w)
StripHyphens(w) == IF w # <<>> /\ w[1] = "-" THEN StripHyphens(Tail(w)) ELSE w

\* the locals of reorder_arguments before its loop
ReorderLocals(value) ==
    [splits |-> Split(value, <<" ">>), arguments |-> <<>>,
     first_index |-> 0, last_index |-> None]

\* the body of the loop for splits[j] (0-based)
CollectArgument(st, j) ==
    IF ~IsArgument(st.splits[j + 1]) THEN st
    ELSE LET first_index == IF st.first_index = 0 THEN j ELSE st.first_index
         IN  IF NoValuePair(st.splits, j)
             THEN [st EXCEPT !.first_index = first_index,
                             !.arguments = SetArgument(@, st.splits[j + 1], <<>>),
                             !.last_index = j]
             ELSE [st EXCEPT !.first_index = first_index,
                             !.arguments = SetArgument(@, st.splits[j + 1],
                                                       <<" ">> \o st.splits[j + 2]),
                             !.last_index = j + 1]

RECURSIVE AddSplits(_, _, _, _)
\* for j in range(j, stop): new_substring += " %s" % splits[j]
AddSplits(new_substring, splits, j, stop) ==
    IF j >= stop THEN new_substring
    ELSE AddSplits(new_substring \o <<" ">> \o splits[j + 1], splits, j + 1, stop)

RECURSIVE AddArguments(_, _, _)
\* the sorted names, each with the prefix found in arguments and its value
AddArguments(new_substring, arguments, names) ==
    IF names = <<>> THEN new_substring
    ELSE LET ordered_agrument ==
                 IF InArguments(arguments, <<"-">> \o names[1])
                 THEN <<"-">> \o names[1]
                 ELSE IF InArguments(arguments, <<"-", "-">> \o names[1])
                      THEN <<"-", "-">> \o names[1]
                      ELSE names[1]
         IN  AddArguments(new_substring \o <<" ">> \o ordered_agrument
                              \o ArgumentValue(arguments, ordered_agrument),
                          arguments, Tail(names))

\* new_substring, after the loop of a value that holds an argument
Reordered(st) ==
    LET head == AddSplits(st.splits[1], st.splits, 1, st.first_index)
        names == Sorted([k \in 1..Len(st.arguments) |->
                            StripHyphens(st.arguments[k].key)])
        body == AddArguments(head, st.arguments, names)
    IN  AddSplits(body, st.splits, st.last_index + 1, Len(st.splits))

RECURSIVE CollectFrom(_, _)
CollectFrom(st, j) ==
    IF j >= Len(st.splits) THEN st ELSE CollectFrom(CollectArgument(st, j), j + 1)

reorder_arguments(value) ==
    IF HasArgument(value)
    THEN Reordered(CollectFrom(ReorderLocals(value), 1))
    ELSE AddSplits(Split(value, <<" ">>)[1], Split(value, <<" ">>), 1,
                   Len(Split(value, <<" ">>)))

\* cmd
Word_cmd == <<"c","m","d">>

Word_x == <<"x">>

Flag_a == <<"-","a">>

Flag_aa == <<"-","-","a">>

Flag_b == <<"-","b">>

Flag_c == <<"-","c">>

ArgumentBank == {Word_x, Flag_a, Flag_aa, Flag_b, Flag_c}

\* the segments  cmd t1 ... tk  of 1..MaxArgs splits of the bank
Segments ==
    {Join(<<Word_cmd>> \o t, <<" ">>) : t \in Texts(ArgumentBank, MaxArgs)}

ArgumentInit ==
    /\ pc = "reorder_arguments"
    /\ config = [tab_str |-> " ", tab_size |-> TabSize, apply_function_style |-> None]
    /\ data \in {<<value>> : value \in Segments}
    /\ idx = 1
    /\ loc = ReorderLocals(data[1])
    /\ ret = NoReturn
    /\ run = 1
    /\ first = NoReturn
    /\ errors = <<>>

\* one pass through the loop that collects the arguments
CollectSplit ==
    /\ pc = "reorder_arguments"
    /\ HasArgument(data[1])
    /\ idx < Len(loc.splits)
    /\ loc' = CollectArgument(loc, idx)
    /\ idx' = idx + 1
    /\ UNCHANGED <<pc, config, data, ret, run, first, errors>>

\* after the loop: the substring is put together and returned
ReturnReordered ==
    /\ pc = "reorder_arguments"
    /\ HasArgument(data[1])
    /\ idx >= Len(loc.splits)
    /\ ret' = [text |-> <<Reordered(loc)>>, error |-> FALSE, raised |-> "no"]
    /\ pc' = "returned"
    /\ UNCHANGED <<config, data, idx, loc, run, first, errors>>

\* a value without an argument is put together from its splits
ReturnRebuilt ==
    /\ pc = "reorder_arguments"
    /\ ~HasArgument(data[1])
    /\ ret' = [text |-> <<reorder_arguments(data[1])>>, error |-> FALSE, raised |-> "no"]
    /\ pc' = "returned"
    /\ UNCHANGED <<config, data, idx, loc, run, first, errors>>

ArgumentNext == CollectSplit \/ ReturnReordered \/ ReturnRebuilt

SpecArgs == ArgumentInit /\ [][ArgumentNext]_vars

\* the flags of a segment in order (1-based positions in splits), each with
\* the value it is paired with
Occurrences(splits) ==
    LET at == {j \in 2..Len(splits) : IsArgument(splits[j])}
        RECURSIVE From(_)
        From(j) ==
            IF j > Len(splits) THEN <<>>
            ELSE IF j \in at
                 THEN <<[flag |-> splits[j],
                         value |-> IF NoValuePair(splits, j - 1) THEN <<>>
                                   ELSE <<splits[j + 1]>>,
                         at |-> j]>> \o From(j + 1)
                 ELSE From(j + 1)
    IN  From(2)

RECURSIVE ByName(_)
\* the occurrences sorted by the name without hyphens, equal names in the
\* order they came in
ByName(occ) ==
    IF occ = <<>> THEN <<>>
    ELSE LET k == MinOf({p \in 1..Len(occ) :
                            \A q \in 1..Len(occ) :
                                ~StrLess(StripHyphens(occ[q].flag),
                                         StripHyphens(occ[p].flag))})
         IN  <<occ[k]>> \o ByName(Take(occ, k - 1) \o Drop(occ, k))

RECURSIVE Flat(_)
Flat(occ) ==
    IF occ = <<>> THEN <<>>
    ELSE <<occ[1].flag>> \o occ[1].value \o Flat(Tail(occ))

\* every split from the first flag to the last flag's value is a flag or
\* the value of the flag before it
FlagsAndValuesOnly(splits) ==
    LET occ == Occurrences(splits)
    IN  Len(Flat(occ)) = occ[Len(occ)].at + Len(occ[Len(occ)].value) - occ[1].at + 1

\* C5: for a segment with a flag, reorder_arguments returns the command
\* name, the words before the first flag, every flag of the segment once,
\* sorted by its name without hyphens, with its own prefix and its own value,
\* then the tokens after the last flag; also when two flags have the same
\* name without hyphens or a flag comes twice.
C5_ArgumentOrderResult ==
    (pc = "returned" /\ HasArgument(data[1]) /\ FlagsAndValuesOnly(loc.splits)) =>
        LET occ == Occurrences(loc.splits)
            last == occ[Len(occ)].at + Len(occ[Len(occ)].value)
        IN  ret.text[1] = Join(Take(loc.splits, occ[1].at - 1)
                               \o Flat(ByName(occ))
                               \o Drop(loc.splits, last), <<" ">>)

(***************************************************************************)
(* check_variable_order (source lines 462-486).  idx is the loop variable  *)
(* i, a 0-based index into lines; variables is the dict of name to line    *)
(* index, in insertion order.                                              *)
(***************************************************************************)
MaxVarLines == 4

\* " -- Please change the order/name of this variable to be in ABC order."
Advisory ==
    <<" ","-","-"," ","P","l","e","a","s","e"," ","c","h","a","n","g",
      "e"," ","t","h","e"," ","o","r","d","e","r","/","n","a","m","e",
      " ","o","f"," ","t","h","i","s"," ","v","a","r","i","a","b","l",
      "e"," ","t","o"," ","b","e"," ","i","n"," ","A","B","C"," ","o",
      "r","d","e","r",".">>

L_local == <<"l","o","c","a","l">>

L_export == <<"e","x","p","o","r","t">>

\* the class [a-zA-z]: the code points from A to z, the six between Z and a
\* with them
IsNameChar(c) == c \in Lower \cup Upper \cup {"[", BSL, "]", "^", "_", BQ}

\* [a-zA-z]+={1}[^=].* matched at position p
MatchAssignmentAt(s, p) ==
    LET stops == {q \in p..Len(s) : ~IsNameChar(s[q])}
        q == IF stops = {} THEN Len(s) + 1 ELSE MinOf(stops)
    IN  /\ q > p
        /\ q + 1 <= Len(s)
        /\ s[q] = "="
        /\ s[q + 1] # "="

\* regexp, regexp1 (word = local) and regexp2 (word = export) of
\* check_variable_order:  ^\s+[a-zA-z]+={1}[^=].*  and  ^\s+word\s+[a-zA-z]+={1}[^=].*
IsVariableLine(line) ==
    LET p == SpanSpace(line, 1)
    IN  /\ p > 1
        /\ \/ MatchAssignmentAt(line, p)
           \/ \E word \in {L_local, L_export} :
                /\ HasAt(line, p, word)
                /\ SpanSpace(line, p + Len(word)) > p + Len(word)
                /\ MatchAssignmentAt(line, SpanSpace(line, p + Len(word)))

\* re.sub(r'=.*', "", line.replace(" ", "").replace("export", "")
\*                        .replace("local", "").replace("\t", ""))
VariableName(line) ==
    LET bare == Replace(Replace(Replace(Replace(line, <<" ">>, <<>>),
                                        L_export, <<>>), L_local, <<>>),
                        <<"\t">>, <<>>)
        p == Find(bare, <<"=">>, 1)
    IN  IF p = 0 THEN bare ELSE Take(bare, p - 1)

\* variables[key] = i: a dict keeps a key where it was first inserted
SetVariable(variables, key, i) ==
    IF \E k \in 1..Len(variables) : variables[k].key = key
    THEN [k \in 1..Len(variables) |->
            IF variables[k].key = key THEN [key |-> key, i |-> i]
            ELSE variables[k]]
    ELSE Append(variables, [key |-> key, i |-> i])

\* sorted(variables) != list(variables), for more than one variable
OutOfOrder(variables) ==
    /\ Len(variables) > 1
    /\ Sorted([k \in 1..Len(variables) |-> variables[k].key])
         # [k \in 1..Len(variables) |-> variables[k].key]

\* lines[variables[key]] += Advisory, for every key
Annotated(lines, variables) ==
    [k \in 1..Len(lines) |->
        IF \E v \in 1..Len(variables) : variables[v].i = k - 1
        THEN lines[k] \o Advisory ELSE lines[k]]

\* the body of the loop for lines[i] (0-based)
CheckVariableLine(st, i) ==
    LET line == st.lines[i + 1]
    IN  IF IsVariableLine(line)
        THEN [st EXCEPT !.variables = SetVariable(@, VariableName(line), i)]
        ELSE IF Len(st.variables) > 0
             THEN [lines |-> IF OutOfOrder(st.variables)
                             THEN Annotated(st.lines, st.variables)
                             ELSE st.lines,
                   variables |-> <<>>,
                   changed |-> st.changed \/ OutOfOrder(st.variables)]
             ELSE st

\*  b=1
Line_set_b == <<" ","b","=","1">>

\*  a=2
Line_set_a == <<" ","a","=","2">>

\* a=2   (not indented)
Line_set_a_flush == <<"a","=","2">>

\*  local c=3
Line_local_c == <<" ","l","o","c","a","l"," ","c","=","3">>

VariableBank == {Line_set_b, Line_set_a, Line_set_a_flush, Line_local_c, Line_x}

VariableInit ==
    /\ pc = "check_variable_order"
    /\ config = [tab_str |-> " ", tab_size |-> TabSize, apply_function_style |-> None]
    /\ data \in Texts(VariableBank, MaxVarLines)
    /\ idx = 0
    /\ loc = [lines |-> data, variables |-> <<>>, changed |-> FALSE]
    /\ ret = NoReturn
    /\ run = 1
    /\ first = NoReturn
    /\ errors = <<>>

\* one pass through the loop over the lines
CheckLine ==
    /\ pc = "check_variable_order"
    /\ idx < Len(loc.lines)
    /\ loc' = CheckVariableLine(loc, idx)
    /\ idx' = idx + 1
    /\ UNCHANGED <<pc, config, data, ret, run, first, errors>>

\* after the loop: the diagnostic, and the lines joined
ReturnChecked ==
    /\ pc = "check_variable_order"
    /\ idx >= Len(loc.lines)
    /\ errors' = IF loc.changed
                 THEN Append(errors, "The file contains variables in wrong order.")
                 ELSE errors
    /\ ret' = [text |-> loc.lines, error |-> FALSE, raised |-> "no"]
    /\ pc' = "returned"
    /\ UNCHANGED <<config, data, idx, loc, run, first>>

VariableNext == CheckLine \/ ReturnChecked

SpecVars == VariableInit /\ [][VariableNext]_vars

\* an assignment line at any indentation, none included: the line with a
\* space put before it is one the pass takes for an assignment
AssignmentLine(line) == IsVariableLine(<<" ">> \o line)

\* lines a..b of text are a maximal run of assignment lines
MaximalRun(text, a, b) ==
    /\ a <= b
    /\ \A k \in a..b : AssignmentLine(text[k])
    /\ a = 1 \/ ~AssignmentLine(text[a - 1])
    /\ b = Len(text) \/ ~AssignmentLine(text[b + 1])

\* the names of lines a..b are not in alphabetical order
Unsorted(text, a, b) ==
    \E k \in a..(b - 1) : StrLess(VariableName(text[k + 1]), VariableName(text[k]))

\* C11: check_variable_order returns as many lines as it was given; every
\* line of a maximal run of assignment lines (at any indentation, anywhere
\* in the text, its end included) whose names are not in alphabetical order
\* carries the advisory comment, and a diagnostic is recorded; every other
\* line is returned as it was.
C11_UnsortedRunsAnnotated ==
    pc = "returned" =>
        /\ Len(ret.text) = Len(data)
        /\ \A a, b \in 1..Len(data) :
             MaximalRun(data, a, b) =>
                IF Unsorted(data, a, b)
                THEN /\ \A k \in a..b : ret.text[k] = data[k] \o Advisory
                     /\ errors # <<>>
                ELSE \A k \in a..b : ret.text[k] = data[k]
        /\ \A k \in 1..Len(data) : ~AssignmentLine(data[k]) => ret.text[k] = data[k]

(***************************************************************************)
(* check_line_break_before_exit_code (source lines 447-460).  idx is the   *)
(* loop variable i, a 0-based index into lines; a line that was given a    *)
(* newline in front holds the newline character.                           *)
(***************************************************************************)
MaxExitLines == 3

NL == "\n"

\* exit and the space after it
L_exit == <<"e","x","i","t"," ">>

\* regexp.search(line) for  r'^\s*exit [0-9]*'
IsExitLine(line) == HasAt(line, SpanSpace(line, 1), L_exit)

\* lines[i - 1]: Python counts a negative index from the end of the list
LineBefore(lines, i) == IF i = 0 THEN lines[Len(lines)] ELSE lines[i]

\* the condition under which lines[i] (0-based) is given a newline in front
NeedsLineBreak(lines, i) ==
    /\ IsExitLine(lines[i + 1])
    /\ LineBefore(lines, i) # <<>>
    /\ ~Contains(LineBefore(lines, i), L_function)
    /\ LineBefore(lines, i) # L_then
    /\ LineBefore(lines, i) # L_do

\* the body of the loop for lines[i] (0-based)
CheckExitCode(st, i) ==
    IF NeedsLineBreak(st.lines, i)
    THEN [st EXCEPT !.lines[i + 1] = <<NL>> \o @]
    ELSE st

\* exit 1
Line_exit == <<"e","x","i","t"," ","1">>

\*   then   (indented)
Line_then_indented == <<" "," ","t","h","e","n">>

ExitBank == {Line_exit, Line_x, <<>>, L_then, Line_then_indented, Line_function_a}

ExitInit ==
    /\ pc = "check_line_break_before_exit_code"
    /\ config = [tab_str |-> " ", tab_size |-> TabSize, apply_function_style |-> None]
    /\ data \in Texts(ExitBank, MaxExitLines)
    /\ idx = 0
    /\ loc = [lines |-> data, changed |-> FALSE]
    /\ ret = NoReturn
    /\ run = 1
    /\ first = NoReturn
    /\ errors = <<>>

\* one pass through the loop over the lines
CheckExitLine ==
    /\ pc = "check_line_break_before_exit_code"
    /\ idx < Len(loc.lines)
    /\ loc' = CheckExitCode(loc, idx)
    /\ idx' = idx + 1
    /\ UNCHANGED <<pc, config, data, ret, run, first, errors>>

\* after the loop: the diagnostic when changed is set (it never is), and
\* the lines joined; the text returned is given as its lines
ReturnSpaced ==
    /\ pc = "check_line_break_before_exit_code"
    /\ idx >= Len(loc.lines)
    /\ errors' = IF loc.changed
                 THEN Append(errors, "The file contains exit commands without empty line before them.")
                 ELSE errors
    /\ ret' = [text |-> Split(Join(loc.lines, <<NL>>), <<NL>>),
               error |-> FALSE, raised |-> "no"]
    /\ pc' = "returned"
    /\ UNCHANGED <<config, data, idx, loc, run, first>>

ExitNext == CheckExitLine \/ ReturnSpaced

SpecExit == ExitInit /\ [][ExitNext]_vars

\* line i (1-based) of text is an exit line with a line before it in the
\* text that is not empty, no function declaration, and no bare then or do
\* once its indentation is trimmed
WantsBlankLine(text, i) ==
    /\ IsExitLine(text[i])
    /\ i > 1
    /\ text[i - 1] # <<>>
    /\ ~Contains(text[i - 1], L_function)
    /\ strip(text[i - 1]) \notin {L_then, L_do}

RECURSIVE WithBlankLines(_, _)
\* the lines of text from line i on, an empty line before each that wants one
WithBlankLines(text, i) ==
    IF i > Len(text) THEN <<>>
    ELSE (IF WantsBlankLine(text, i) THEN <<<<>>>> ELSE <<>>)
         \o <<text[i]>> \o WithBlankLines(text, i + 1)

\* C12: check_line_break_before_exit_code puts one empty line before an exit
\* line if and only if the line before it in the text is not empty, no
\* function declaration and no bare then or do after trimming; an exit on
\* the first line gets none; no diagnostic is recorded.
C12_BlankLineBeforeExit ==
    pc = "returned" =>
        /\ ret.text = WithBlankLines(data, 1)
        /\ errors = <<>>

(***************************************************************************)
(* The pairing of a flag with the token after it in reorder_arguments      *)
(* (source lines 297-311), on segments with quoted and delimited tokens.   *)
(***************************************************************************)
MaxPairArgs == 3

\* "q;
Word_quoted == <<DQ, "q", ";">>

\* \"r&
Word_escaped_quote == <<BSL, DQ, "r", "&">>

\* y,z
Word_delimited == <<"y", ",", "z">>

PairingBank == {Flag_a, Flag_b, Word_x, Word_quoted, Word_escaped_quote, Word_delimited}

PairingInit ==
    /\ pc = "reorder_arguments"
    /\ config = [tab_str |-> " ", tab_size |-> TabSize, apply_function_style |-> None]
    /\ data \in {<<Join(<<Word_cmd>> \o t, <<" ">>)>> : t \in Texts(PairingBank, MaxPairArgs)}
    /\ idx = 1
    /\ loc = ReorderLocals(data[1])
    /\ ret = NoReturn
    /\ run = 1
    /\ first = NoReturn
    /\ errors = <<>>

SpecPairing == PairingInit /\ [][ArgumentNext]_vars

\* one or two hyphens and a letter begin the token
IsFlagToken(token) ==
    \/ Len(token) >= 2 /\ token[1] = "-" /\ IsAlpha(token[2])
    \/ Len(token) >= 3 /\ token[1] = "-" /\ token[2] = "-" /\ IsAlpha(token[3])

\* a double quote, or a backslash and a double quote, begin the token
StartsWithDoubleQuote(token) ==
    \/ Len(token) >= 1 /\ token[1] = DQ
    \/ Len(token) >= 2 /\ token[1] = BSL /\ token[2] = DQ

HasDelimiter(token) == \E k \in 1..Len(token) : token[k] \in {"|", ",", "&", ";"}

\* the flag at position j (1-based) of splits is the last of the positions
\* up to last that holds this flag token
LastRecorded(splits, j, last) == \A k \in (j + 1)..last : splits[k] # splits[j]

\* the value the loop has recorded for every flag it has passed is what
\* Value(splits, j) says
RecordedAs(Value(_, _)) ==
    (pc = "reorder_arguments" /\ HasArgument(data[1])) =>
        \A j \in 2..MinOf({idx, Len(loc.splits)}) :
            (IsFlagToken(loc.splits[j]) /\ LastRecorded(loc.splits, j, idx)) =>
                /\ InArguments(loc.arguments, loc.splits[j])
                /\ ArgumentValue(loc.arguments, loc.splits[j]) = Value(loc.splits, j)

\* the flag is the last token, or the token after it begins with no double
\* quote and is a flag or holds a delimiter
StandsAlone(splits, j) ==
    \/ j = Len(splits)
    \/ /\ ~StartsWithDoubleQuote(splits[j + 1])
       /\ IsFlagToken(splits[j + 1]) \/ HasDelimiter(splits[j + 1])

\* as stated: the token after the flag is a flag, or is the last token, or
\* begins with a quote character, or holds a delimiter
StandsAloneAsStated(splits, j) ==
    \/ j = Len(splits)
    \/ IsFlagToken(splits[j + 1])
    \/ j + 1 = Len(splits)
    \/ StartsWithDoubleQuote(splits[j + 1]) \/ Prefix(splits[j + 1], 1) = <<SQ>>
    \/ HasDelimiter(splits[j + 1])

Line_close_continued == <<"}", " ", BSL>>

\* a \
Line_a_continued == <<"a", " ", BSL>>

\* case x in
Line_case == <<"c","a","s","e"," ","x"," ","i","n">>

\* a) x ;;
Line_arm == <<"a",")"," ","x"," ",";",";">>

IndentBank ==
    {Line_close_continued, Line_a_continued, Line_x, Line_if, L_else, Line_fi,
     Line_case, Line_arm, Line_esac}

SpecIndent == BeautifyInit(IndentBank) /\ [][Next]_vars

\* inc, outc and the two adjustments of an analysed line (source lines
\* 217-257), from the locals before the line and its structure-only view
Counts(st, test_record) ==
    LET has_esac == HasWord(test_record, L_esac) /\ st.case_level # 0
        level1 == IF has_esac THEN st.case_level - 1 ELSE st.case_level
        has_case == HasWord(test_record, L_case)
        level2 == IF has_case THEN level1 + 1 ELSE level1
        arm == level2 # 0 /\ ChoiceArm(test_record)
    IN  [inc |-> Inc(test_record) + (IF has_case THEN 1 ELSE 0)
                                  + (IF arm THEN 1 ELSE 0),
         outc |-> Outc(test_record) + (IF has_esac THEN 1 ELSE 0),
         choice_case |-> IF arm THEN -1 ELSE 0,
         else_case |-> IF ElseOrElifThen(test_record) THEN -1 ELSE 0]

\* the structure-only view of line i of data, a line without quotes
TestRecordAt(i) ==
    get_test_record(IF LocalsBefore(i).case_level # 0
                    THEN SpaceBeforeTerminator(strip(data[i]))
                    ELSE strip(data[i]))

\* max(0, n)
FlooredAtZero(n) == IF n > 0 THEN n ELSE 0

\* the number of whitespace characters line begins with
IndentOf(line) == SpanSpace(line, 1) - 1

\* C14: an analysed line with running depth D before it and net = inc - outc
\* is emitted at level D + min(net, 0) + else adjustment + case-arm
\* adjustment, floored at zero, then one more when the line before ended in
\* a continuation backslash and no bracket is open, floored at zero again;
\* the running depth after the line is D + net.  For every D, negative
\* ones included.
C14_DisplayedIndent ==
    (pc = "returned" /\ run = 1) =>
        \A i \in 1..Len(data) :
            LocalsAfter(i).took = "analysed" =>
                LET before == LocalsBefore(i)
                    counts == Counts(before, TestRecordAt(i))
                    net == counts.inc - counts.outc
                    base == FlooredAtZero(before.tab + (IF net < 0 THEN net ELSE 0)
                                            + counts.else_case + counts.choice_case)
                    level == FlooredAtZero(IF before.continue_line
                                                /\ before.open_brackets = 0
                                           THEN base + 1 ELSE base)
                IN  /\ IndentOf(ret.text[i]) = config.tab_size * level
                    /\ LocalsAfter(i).tab = before.tab + net

(***************************************************************************)
(* change_argument_order (source lines 335-392).  The text is kept as its  *)
(* lines: a line holds no newline, so data.replace(line, new_line) is the  *)
(* replacement in every line of the text.  idx is the 0-based index of the *)
(* line of the text as it was on entry.                                    *)
(***************************************************************************)
MaxOrderLines == 3

L_eval == <<"e","v","a","l">>

\* -{1,2}[a-zA-Z] matched at p: the position after it, 0 when it does not
FlagLetterAt(s, p) ==
    IF p + 2 <= Len(s) /\ p >= 1 /\ s[p] = "-" /\ s[p + 1] = "-" /\ IsAlpha(s[p + 2])
    THEN p + 3
    ELSE IF p + 1 <= Len(s) /\ p >= 1 /\ s[p] = "-" /\ IsAlpha(s[p + 1])
         THEN p + 2
         ELSE 0

\* re.findall(' -{1,2}[a-zA-Z] \$\(.*\)', line): the leftmost match runs to
\* the last ')' of the line, so there is one match at most
SubshellCalls(line) ==
    LET last == FindLast(line, <<")">>)
        starts == {p \in 1..Len(line) :
                      /\ line[p] = " "
                      /\ FlagLetterAt(line, p + 1) # 0
                      /\ HasAt(line, FlagLetterAt(line, p + 1), <<" ", "$", "(">>)
                      /\ last >= FlagLetterAt(line, p + 1) + 3}
    IN  IF starts = {} THEN <<>> ELSE <<SubSeq(line, MinOf(starts), last)>>

RECURSIVE SubshellKeys(_, _)
\* re.findall('(-{1,2}[a-zA-Z]) \$', b), from position p on
SubshellKeys(b, p) ==
    IF p > Len(b) THEN <<>>
    ELSE LET e == FlagLetterAt(b, p)
         IN  IF e # 0 /\ HasAt(b, e, <<" ", "$">>)
             THEN <<SubSeq(b, p, e - 1)>> \o SubshellKeys(b, e + 2)
             ELSE SubshellKeys(b, p + 1)

\* re.findall('\$\(.*\)', b): from the first "$(" to the last ')'
SubshellValues(b) ==
    LET q == Find(b, <<"$", "(">>, 1)
        last == FindLast(b, <<")">>)
    IN  IF q # 0 /\ last >= q + 2 THEN <<SubSeq(b, q, last)>> ELSE <<>>

\* subshells[key] = value: a dict keeps a key where it was first inserted
SetSubshell(subshells, key, value) ==
    IF \E k \in 1..Len(subshells) : subshells[k].key = key
    THEN [k \in 1..Len(subshells) |->
            IF subshells[k].key = key THEN [key |-> key, value |-> value]
            ELSE subshells[k]]
    ELSE Append(subshells, [key |-> key, value |-> value])

RECURSIVE CollectPairs(_, _, _, _)
\* for i in range(len(keys)): subshells[keys[i]] = values[i]; values[i]
\* raises IndexError when there are more keys than values
CollectPairs(st, keys, values, i) ==
    IF i > Len(keys) THEN st
    ELSE IF i > Len(values) THEN [st EXCEPT !.raised = "IndexError"]
    ELSE CollectPairs([st EXCEPT !.subshells = SetSubshell(@, keys[i], values[i])],
                      keys, values, i + 1)

RECURSIVE CollectPieces(_, _)
\* for b in a.split(")"): the keys and values of every piece that is not
\* empty, the ')' put back
CollectPieces(st, pieces) ==
    IF pieces = <<>> \/ st.raised # "no" THEN st
    ELSE LET b == pieces[1] \o <<")">>
         IN  CollectPieces(IF pieces[1] = <<>> THEN st
                           ELSE CollectPairs(st, SubshellKeys(b, 1),
                                             SubshellValues(b), 1),
                           Tail(pieces))

\* the dict subshells of a line, and whether collecting it raised
Subshells(line) ==
    LET calls == SubshellCalls(line)
        empty == [subshells |-> <<>>, raised |-> "no"]
    IN  IF calls = <<>> THEN empty
        ELSE CollectPieces(empty, Split(calls[1], <<")">>))

RECURSIVE WithoutSubshells(_, _)
\* for value in subshells.values(): new_line = new_line.replace(value, "")
WithoutSubshells(new_line, subshells) ==
    IF subshells = <<>> THEN new_line
    ELSE WithoutSubshells(Replace(new_line, subshells[1].value, <<>>), Tail(subshells))

\* subshells[key] = self.reorder_arguments(regexp, value[2:-1], black_list)
ReorderedSubshells(subshells) ==
    [k \in 1..Len(subshells) |->
        [key |-> subshells[k].key,
         value |-> reorder_arguments(SubSeq(subshells[k].value, 3,
                                            Len(subshells[k].value) - 1))]]

\* ' [|&]{1,2} ' matched at p: the position after it, 0 when it does not
PipeAt(s, p) ==
    IF p + 2 > Len(s) \/ s[p] # " " \/ s[p + 1] \notin {"|", "&"} THEN 0
    ELSE IF p + 3 <= Len(s) /\ s[p + 2] \in {"|", "&"} /\ s[p + 3] = " " THEN p + 4
    ELSE IF s[p + 2] = " " THEN p + 3
    ELSE 0

RECURSIVE ReorderSubstrings(_)
\* the substrings between the pipes, each reordered, with the pipes between
\* them as they were
ReorderSubstrings(s) ==
    LET hits == {p \in 1..Len(s) : PipeAt(s, p) # 0}
    IN  IF hits = {} THEN reorder_arguments(s)
        ELSE LET p == MinOf(hits)
             IN  reorder_arguments(Take(s, p - 1))
                 \o SubSeq(s, p, PipeAt(s, p) - 1)
                 \o ReorderSubstrings(Drop(s, PipeAt(s, p) - 1))

RECURSIVE WithSubshells(_, _)
\* for key in subshells.keys():
\*     new_line = new_line.replace(key, "%s $(%s)" % (key, subshells[key]))
WithSubshells(new_line, subshells) ==
    IF subshells = <<>> THEN new_line
    ELSE WithSubshells(Replace(new_line, subshells[1].key,
                               subshells[1].key \o <<" ", "$", "(">>
                                   \o subshells[1].value \o <<")">>),
                       Tail(subshells))

\* the condition under which a line is rewritten
Qualifies(line) ==
    /\ ~Contains(line, <<"[">>)
    /\ ~Contains(line, L_eval)
    /\ HasArgument(line)

\* new_line of a qualifying line whose subshells were collected
NewLine(line, subshells) ==
    LET bare == WithoutSubshells(line, subshells)
        joined == ReorderSubstrings(bare)
        filled == WithSubshells(joined, ReorderedSubshells(subshells))
    IN  rstrip(Replace(filled, <<")", " ", " ">>, <<")", " ">>))

\* the body of the loop for one line of the text as it was on entry
OrderArguments(st, line) ==
    IF ~Qualifies(line) THEN st
    ELSE LET collected == Subshells(line)
         IN  IF collected.raised # "no"
             THEN [st EXCEPT !.raised = collected.raised]
             ELSE LET new_line == NewLine(line, collected.subshells)
                  IN  [st EXCEPT
                         !.lines = [k \in 1..Len(st.lines) |->
                                       Replace(st.lines[k], line, new_line)],
                         !.issues = IF line # new_line THEN @ + 1 ELSE @]

\* cmd -b -a
Line_cmd_b_a == <<"c","m","d"," ","-","b"," ","-","a">>

\* [ cmd -b -a ]
Line_test_cmd_b_a == <<"[", " ">> \o Line_cmd_b_a \o <<" ", "]">>

\* cmd -b $(y -d -c) -a | z
Line_subshell ==
    <<"c","m","d"," ","-","b"," ","$","(","y"," ","-","d"," ","-","c",")",
      " ","-","a"," ","|"," ","z">>

\* cmd -a $(x) -b $y)
Line_subshell_open ==
    <<"c","m","d"," ","-","a"," ","$","(","x",")"," ","-","b"," ","$","y",")">>

OrderBank == {Line_cmd_b_a, Line_test_cmd_b_a, Line_subshell, Line_subshell_open, Line_x}

OrderInit ==
    /\ pc = "change_argument_order"
    /\ config = [tab_str |-> " ", tab_size |-> TabSize, apply_function_style |-> None]
    /\ data \in Texts(OrderBank, MaxOrderLines)
    /\ idx = 0
    /\ loc = [lines |-> data, issues |-> 0, raised |-> "no"]
    /\ ret = NoReturn
    /\ run = 1
    /\ first = NoReturn
    /\ errors = <<>>

\* one pass through the loop over the lines
OrderLine ==
    /\ pc = "change_argument_order"
    /\ idx < Len(data)
    /\ loc' = OrderArguments(loc, data[idx + 1])
    /\ idx' = idx + 1
    /\ pc' = IF loc'.raised # "no" THEN "raised" ELSE pc
    /\ ret' = IF loc'.raised # "no"
              THEN [text |-> <<>>, error |-> FALSE, raised |-> loc'.raised]
              ELSE ret
    /\ errors' = IF loc'.issues > loc.issues
                 THEN Append(errors, "The file contains argument order issue(s).")
                 ELSE errors
    /\ UNCHANGED <<config, data, run, first>>

\* after the loop: the text is returned
ReturnOrdered ==
    /\ pc = "change_argument_order"
    /\ idx >= Len(data)
    /\ ret' = [text |-> loc.lines, error |-> FALSE, raised |-> "no"]
    /\ pc' = "returned"
    /\ UNCHANGED <<config, data, idx, loc, run, first, errors>>

OrderNext == OrderLine \/ ReturnOrdered

SpecOrder == OrderInit /\ [][OrderNext]_vars

\* C15: every line of the text that does not qualify (it holds a '[', or
\* eval, or no flag after a space) is in the text change_argument_order
\* returns as it was, whatever the other lines of the text hold.
C15_OtherLinesUnchanged ==
    pc = "returned" =>
        /\ Len(ret.text) = Len(data)
        /\ \A k \in 1..Len(data) : ~Qualifies(data[k]) => ret.text[k] = data[k]

\* how often token occurs in tokens
Occurs(tokens, token) == Cardinality({k \in 1..Len(tokens) : tokens[k] = token})

\* C16: what reorder_arguments returns for a segment is a permutation of
\* the segment's space-separated tokens: none is dropped, none is doubled,
\* tokens between two flags and repeated flags included.
C16_TokensPreserved ==
    pc = "returned" =>
        LET given == Split(data[1], <<" ">>)
            returned == Split(ret.text[1], <<" ">>)
        IN  /\ Len(returned) = Len(given)
            /\ \A k \in 1..Len(given) :
                  Occurs(returned, given[k]) = Occurs(given, given[k])

\* C17: the open-bracket count beautify_string carries is never negative
\* (a ']' without an open '[' before it does not leave later lines to be
\* passed on unanalysed), and a line that is passed on as part of a
\* multi-line condition had the count at another value than 0 or is a
\* continued conditional: with the count at 0, a line that is no continued
\* conditional, here-document, quoted or formatter-off line is analysed.
C17_OpenBracketsNeverNegative ==
    /\ loc.open_brackets >= 0
    /\ (pc = "returned" /\ run = 1) =>
          \A i \in 1..Len(data) :
              LocalsAfter(i).took = "kept" =>
                  \/ LocalsBefore(i).open_brackets # 0
                  \/ ContinuedIf(rstrip(data[i]))
=============================================================================
